---- MODULE Spec2Model ----
(***************************************************************************)
(* A model of the Bedrock AgentCore memory demo: the Streamlit application *)
(* app.py (one action per run of the script with one widget trigger), the  *)
(* standalone example scripts, and the managed service seen through the    *)
(* outcomes of its SDK calls (a call either returns or raises).            *)
(* File operations on memory_config.json are taken to succeed.             *)
(***************************************************************************)
EXTENDS Integers, Sequences, FiniteSets, TLC

\* ------------------------------------------------------------------ bounds
MaxMemories == 2       \* create_memory calls that succeed in one behaviour
MaxChat == 4           \* longest chat_history kept
MaxWaitInput == 6      \* largest max_wait given to wait_for_memory_active alone
MaxLatency == 1        \* seconds a get_memory call may take
MaxPollDelay == 2      \* polls answered CREATING before the service settles
MaxEvents == 3         \* longest event list given to add_events_to_memory alone
MaxMajor == 4          \* largest sys.version_info.major tried
MaxMinor == 12         \* largest sys.version_info.minor tried

\* ------------------------------------------------------- program constants
None == 0                    \* st.session_state.memory_id = None
DefaultMaxWait == 60         \* wait_for_memory_active(..., max_wait=60)
SleepSeconds == 2            \* time.sleep(2) of the app's polling loop
ExampleQueries == 3          \* the queries example_6 makes, one call each

Sessions == {"s1", "s2"}
Scripts == {"example_3", "example_6"}
Ops == {"create_memory", "get_memory", "update_memory", "delete_memory",
        "create_event", "list_events", "retrieve_memory_records",
        "create_agent", "invoke_async"}
Statuses == {"CREATING", "ACTIVE", "FAILED"}
StrategyOptions == {"user_preference", "summary", "semantic"}
ActorIds == {"user-1", "user-2"}
SessionIds == {"session-1", "session-2"}
Roles == {"USER", "ASSISTANT", "OTHER"}
Texts == {"t1", "t2"}

VARIABLES
    file,             \* memory_config.json: <<>> when absent, else <<content>>
    memories,         \* ids of the memory resources the service holds
    next_id,          \* the id the next successful create_memory returns
    last_created,     \* id returned by the latest successful create_memory
    observed_active,  \* ids some get_memory response reported ACTIVE
    memory_id,        \* st.session_state.memory_id, per UI session
    memory_status,    \* st.session_state.memory_status
    agent,            \* st.session_state.agent (None, or its memory id)
    chat_history,     \* st.session_state.chat_history
    last,             \* what the latest handler or script run did
    w,                \* a call of wait_for_memory_active in progress
    script_pc,        \* position of example_3 / example_6
    script_mid,       \* memory_id loaded by example_3 / example_6
    ev,               \* a call of add_events_to_memory: arguments and call made
    vs                \* a run of verify_setup.py: environment, results

vars == <<file, memories, next_id, last_created, observed_active, memory_id,
          memory_status, agent, chat_history, last, w, script_pc, script_mid,
          ev, vs>>
appVars == <<file, memories, next_id, last_created, observed_active,
             memory_id, memory_status, agent, chat_history, last>>
scriptVars == <<script_pc, script_mid>>

\* ------------------------------------------------- wait_for_memory_active
\* The state of one call: start_time is taken as 0, elapsed is
\* time.time() - start_time at the loop test.
WaitInit(max_wait) ==
    [pc |-> "loop", max_wait |-> max_wait, elapsed |-> 0, polls |-> 0,
     last_poll_at |-> 0, last_status |-> "none", saw_active |-> FALSE,
     result |-> "none"]

WaitIdle == [WaitInit(0) EXCEPT !.pc = "idle"]

\* A wrong loop: an ACTIVE response is treated like any other status.
WaitIterIgnoresActive(ws, st, d) ==
    IF ~(ws.elapsed < ws.max_wait)
    THEN [ws EXCEPT !.pc = "done", !.result = "False"]
    ELSE IF st = "RAISE"
    THEN [ws EXCEPT !.pc = "done", !.result = "raised", !.polls = @ + 1,
                    !.last_poll_at = ws.elapsed, !.last_status = st]
    ELSE [ws EXCEPT !.polls = @ + 1, !.last_poll_at = ws.elapsed,
                    !.last_status = st,
                    !.saw_active = @ \/ st = "ACTIVE",
                    !.elapsed = @ + d + SleepSeconds]

\* One pass of `while time.time() - start_time < max_wait:`: the test, the
\* get_memory call (answering st after d seconds, or raising), the return
\* on ACTIVE, the sleep.
WaitIter(ws, st, d) ==
    IF ~(ws.elapsed < ws.max_wait)
    THEN [ws EXCEPT !.pc = "done", !.result = "False"]
    ELSE IF st = "RAISE"
    THEN [ws EXCEPT !.pc = "done", !.result = "raised", !.polls = @ + 1,
                    !.last_poll_at = ws.elapsed, !.last_status = st]
    ELSE IF st = "ACTIVE"
    THEN [ws EXCEPT !.pc = "done", !.result = "True", !.polls = @ + 1,
                    !.last_poll_at = ws.elapsed, !.last_status = st,
                    !.saw_active = TRUE, !.elapsed = @ + d]
    ELSE [ws EXCEPT !.polls = @ + 1, !.last_poll_at = ws.elapsed,
                    !.last_status = st, !.elapsed = @ + d + SleepSeconds]

\* The whole call, against a service that answers CREATING to the first k
\* polls and `final` ("RAISE": the call raises) to every later one.
RECURSIVE WaitRun(_, _, _, _)
WaitRun(ws, k, final, d) ==
    IF ws.pc = "done" THEN ws
    ELSE WaitRun(WaitIter(ws, IF ws.polls < k THEN "CREATING" ELSE final, d),
                 k, final, d)

wait_for_memory_active(max_wait, k, final, d) ==
    WaitRun(WaitInit(max_wait), k, final, d)

\* One command runs at a time on the command line.
Busy == w.pc # "idle" \/ \E x \in Scripts : script_pc[x] # "idle"

\* How wait_for_memory_active(memory_id) can end, max_wait left at its
\* default.
DefaultWaitOutcomes ==
    {wait_for_memory_active(DefaultMaxWait, k, final, d) :
        k \in 0..MaxPollDelay, final \in Statuses \cup {"RAISE"},
        d \in 0..MaxLatency}

\* The call taken step by step.
WaitStart ==
    /\ ~Busy
    /\ \E mw \in 0..MaxWaitInput : w' = WaitInit(mw)
    /\ UNCHANGED <<appVars, scriptVars, ev, vs>>

WaitLoop ==
    /\ w.pc = "loop"
    /\ \E st \in Statuses \cup {"RAISE"}, d \in 0..MaxLatency :
          w' = WaitIter(w, st, d)
    /\ UNCHANGED <<appVars, scriptVars, ev, vs>>

WaitReturn ==
    /\ w.pc = "done"
    /\ w' = WaitIdle
    /\ UNCHANGED <<appVars, scriptVars, ev, vs>>

WaitNext == WaitStart \/ WaitLoop \/ WaitReturn

\* ------------------------------------------------------------ app helpers
NoCalls == [o \in Ops |-> 0]

\* load_memory_config() and the first lines of render_sidebar: what the
\* session holds once the sidebar of a run has been rendered.
load_memory_config == IF file # <<>> THEN file[1] ELSE [none |-> TRUE]

SbId(s) == IF file # <<>> THEN load_memory_config.memory_id ELSE memory_id[s]
SbStatus(s) == IF file # <<>> THEN "Active" ELSE memory_status[s]

\* The record of a handler's run, before it has done anything; `before` is
\* the state the handler is entered with.
Entry(h, s) ==
    [handler |-> h, session |-> s, calls |-> NoCalls, raised |-> {},
     ui |-> "none", ret |-> "none", exit |-> "none", uncaught |-> FALSE,
     event |-> <<>>, update |-> <<>>,
     before |-> [file |-> file, memory_id |-> SbId(s),
                 memory_status |-> SbStatus(s), agent |-> agent[s],
                 chat_history |-> chat_history[s]]]

ScriptEntry(h) ==
    [handler |-> h, session |-> "cli", calls |-> NoCalls, raised |-> {},
     ui |-> "none", ret |-> "none", exit |-> "none", uncaught |-> FALSE,
     event |-> <<>>, update |-> <<>>,
     before |-> [file |-> file, memory_id |-> None,
                 memory_status |-> "Not Created", agent |-> None,
                 chat_history |-> <<>>]]

\* The widgets of the Short-Term, Long-Term and Agent Chat tabs.
TabTriggers ==
    {"add_events", "retrieve_events", "search", "preset", "clear_chat",
     "chat"}

\* A wrong tab: it goes on without a memory.
TabNeverReturnsEarly(mid) == FALSE

\* `if not st.session_state.memory_id: ... return` at the top of
\* render_shortterm_memory_tab, render_longterm_memory_tab and
\* render_agent_chat_tab.
TabReturnsEarly(mid) == mid = None

\* A wrong save: the status is written beside the id.
save_memory_config_extra_field(mid) ==
    <<[memory_id |-> mid, status |-> "CREATING"]>>

\* json.dump({"memory_id": memory_id}, f): the new content of the file.
save_memory_config(mid) == <<[memory_id |-> mid]>>

\* A wrong create: a create_memory that raises is tried once more, and
\* raises again.
create_memory_resource_retries(ok) ==
    IF ok
    THEN [raised |-> FALSE, memory_id |-> next_id, calls |-> 1,
          file |-> save_memory_config(next_id)]
    ELSE [raised |-> TRUE, memory_id |-> None, calls |-> 2, file |-> file]

\* create_memory_resource: the one create_memory call returns next_id (ok)
\* and the id is saved, or it raises and nothing is saved.
create_memory_resource(ok) ==
    IF ok
    THEN [raised |-> FALSE, memory_id |-> next_id, calls |-> 1,
          file |-> save_memory_config(next_id)]
    ELSE [raised |-> TRUE, memory_id |-> None, calls |-> 1, file |-> file]

\* The strategy_configs list add_longterm_strategies builds.
StrategyConfigs(strategies) ==
    (IF "user_preference" \in strategies
        THEN <<"userPreferenceMemoryStrategy">> ELSE <<>>)
    \o (IF "summary" \in strategies
        THEN <<"summaryMemoryStrategy">> ELSE <<>>)
    \o (IF "semantic" \in strategies
        THEN <<"semanticMemoryStrategy">> ELSE <<>>)

\* add_longterm_strategies: update_memory is called only for a non-empty
\* list, and returns (ok) or raises.
add_longterm_strategies(mid, strategies, ok) ==
    LET strategy_configs == StrategyConfigs(strategies)
    IN  IF strategy_configs # <<>>
        THEN [called |-> TRUE, raised |-> ~ok,
              update |-> <<[memoryId |-> mid,
                            addMemoryStrategies |-> strategy_configs,
                            ok |-> ok]>>]
        ELSE [called |-> FALSE, raised |-> FALSE, update |-> <<>>]

\* A wrong pass-through: the payload is built last event first.
PayloadReversed(events) ==
    [i \in 1..Len(events) |->
        [conversational |->
            [content |-> [text |-> events[Len(events) + 1 - i].text],
             role |-> events[Len(events) + 1 - i].role]]]

\* The payload list add_events_to_memory builds from its events.
Payload(events) ==
    [i \in 1..Len(events) |->
        [conversational |->
            [content |-> [text |-> events[i].text],
             role |-> events[i].role]]]

\* add_events_to_memory: the create_event calls it makes.
add_events_to_memory(mid, actor, sess, events) ==
    <<[memoryId |-> mid, actorId |-> actor, sessionId |-> sess,
       payload |-> Payload(events)]>>

\* get_memory's outcomes for a memory id: a status, or the call raises
\* (as it must for a memory the service does not hold).
PollOutcomes(mid) ==
    IF mid \in memories THEN Statuses \cup {"RAISE"} ELSE {"RAISE"}

\* delete_memory's outcomes for a memory id.
DeleteOutcomes(mid) ==
    IF mid \in memories THEN {"ok", "Error"}
    ELSE {"ResourceNotFoundException", "Error"}

\* A wrong delete: the configuration file is removed before the call.
delete_memory_resource_removes_first(mid, outcome) ==
    [ret |-> (outcome = "ok"), file |-> <<>>]

\* delete_memory_resource: True and the file removed when delete_memory
\* returns, False with nothing touched when it raises.
delete_memory_resource(mid, outcome) ==
    IF outcome = "ok"
    THEN [ret |-> TRUE, file |-> <<>>]
    ELSE [ret |-> FALSE, file |-> file]

\* sample_events of render_shortterm_memory_tab.
SampleEvents ==
    <<[role |-> "USER", text |-> "My name is Alex"],
      [role |-> "ASSISTANT", text |-> "Nice to meet you Alex"],
      [role |-> "USER", text |-> "I prefer espresso"],
      [role |-> "ASSISTANT", text |-> "Strong and bold"],
      [role |-> "USER", text |-> "I'm a data scientist"],
      [role |-> "ASSISTANT", text |-> "Python is excellent"],
      [role |-> "USER", text |-> "Mostly pandas"],
      [role |-> "ASSISTANT", text |-> "That's a solid stack"]>>

\* The session after the sidebar of a run, the rest left alone.
SidebarOnly(s) ==
    /\ memory_id' = [memory_id EXCEPT ![s] = SbId(s)]
    /\ memory_status' = [memory_status EXCEPT ![s] = SbStatus(s)]

\* ----------------------------------------------------- verify_setup.py
\* check_python_version, from sys.version_info.
check_python_version(major, minor) == major >= 3 /\ minor >= 10

\* check_dependencies: no required package fails to import.
check_dependencies(missing) == ~missing

\* check_aws_credentials: the credentials file exists and holds [default].
check_aws_credentials(credentials_exist, has_default) ==
    IF ~credentials_exist THEN FALSE ELSE has_default

\* check_aws_region: "not critical" on every path.
check_aws_region(config_exists, has_region) ==
    IF ~config_exists THEN TRUE
    ELSE IF has_region THEN TRUE
    ELSE TRUE

\* check_bedrock_access: False without boto3 or with credentials the
\* service rejects for the default profile; anything else is let through.
check_bedrock_access(boto3_installed, default_error) ==
    IF ~boto3_installed THEN FALSE
    ELSE IF default_error \in {"InvalidClientTokenId", "SignatureDoesNotMatch"}
    THEN FALSE
    ELSE TRUE

BedrockErrors ==
    {"none", "AccessDenied", "InvalidClientTokenId", "SignatureDoesNotMatch",
     "other"}

\* The names of main's `checks` list, in order.
CheckNames ==
    <<"Python Version", "Dependencies", "AWS Credentials", "AWS Region",
      "Bedrock Access">>

\* What the i-th entry of `checks` evaluates to in an environment.
RunCheck(i, env) ==
    CASE i = 1 -> check_python_version(env.major, env.minor)
      [] i = 2 -> check_dependencies(env.missing)
      [] i = 3 -> check_aws_credentials(env.credentials_exist,
                                        env.has_default)
      [] i = 4 -> check_aws_region(env.config_exists, env.has_region)
      [] OTHER -> check_bedrock_access(env.boto3_installed,
                                       env.default_error)

\* check_aws_credentials and check_aws_region open their file outside any
\* try: a file that exists but cannot be read ends main with a traceback.
CheckRaises(i, env) ==
    \/ i = 3 /\ env.credentials_exist /\ ~env.credentials_readable
    \/ i = 4 /\ env.config_exists /\ ~env.config_readable

\* A wrong summary: `all_passed` is overwritten by each check, so the last
\* one decides.
main_return_last_decides(results) ==
    IF results[Len(results)] THEN "0" ELSE "1"

\* main's summary loop and return value.
main_return(results) ==
    IF \A i \in 1..Len(results) : results[i] THEN "0" ELSE "1"

NoEnv ==
    [major |-> 0, minor |-> 0, missing |-> FALSE,
     credentials_exist |-> FALSE, credentials_readable |-> FALSE,
     has_default |-> FALSE, config_exists |-> FALSE,
     config_readable |-> FALSE, has_region |-> FALSE,
     boto3_installed |-> FALSE, default_error |-> "none"]

VerifyIdle == [pc |-> "idle", env |-> NoEnv, results |-> <<>>, ret |-> "none"]

\* The script is started in some environment.
VerifyStart ==
    /\ vs.pc = "idle"
    /\ \E major \in 2..MaxMajor, minor \in 0..MaxMinor, missing \in BOOLEAN,
          credentials_exist \in BOOLEAN, credentials_readable \in BOOLEAN,
          has_default \in BOOLEAN, config_exists \in BOOLEAN,
          config_readable \in BOOLEAN, has_region \in BOOLEAN,
          boto3_installed \in BOOLEAN, default_error \in BedrockErrors :
          /\ ~credentials_exist => ~credentials_readable
          /\ ~credentials_readable => ~has_default
          /\ ~config_exists => ~config_readable
          /\ ~config_readable => ~has_region
          /\ ~boto3_installed => default_error = "none"
          /\ vs' = [pc |-> "checks",
                    env |-> [major |-> major, minor |-> minor,
                             missing |-> missing,
                             credentials_exist |-> credentials_exist,
                             credentials_readable |-> credentials_readable,
                             has_default |-> has_default,
                             config_exists |-> config_exists,
                             config_readable |-> config_readable,
                             has_region |-> has_region,
                             boto3_installed |-> boto3_installed,
                             default_error |-> default_error],
                    results |-> <<>>, ret |-> "none"]
    /\ UNCHANGED <<appVars, w, scriptVars, ev>>

\* main builds `checks`: the next check function is called, whatever the
\* earlier ones returned.
VerifyCheck ==
    /\ vs.pc = "checks"
    /\ Len(vs.results) < Len(CheckNames)
    /\ LET i == Len(vs.results) + 1 IN
          vs' = IF CheckRaises(i, vs.env)
                THEN [vs EXCEPT !.pc = "raised"]
                ELSE [vs EXCEPT !.results = Append(@, RunCheck(i, vs.env))]
    /\ UNCHANGED <<appVars, w, scriptVars, ev>>

\* main prints the summary and returns.
VerifySummary ==
    /\ vs.pc = "checks"
    /\ Len(vs.results) = Len(CheckNames)
    /\ vs' = [vs EXCEPT !.pc = "done", !.ret = main_return(vs.results)]
    /\ UNCHANGED <<appVars, w, scriptVars, ev>>

VerifyNext == VerifyStart \/ VerifyCheck \/ VerifySummary

\* ------------------------------------------------------------------ Init
Init ==
    /\ file = <<>>
    /\ memories = {}
    /\ next_id = 1
    /\ last_created = None
    /\ observed_active = {}
    /\ memory_id = [s \in Sessions |-> None]
    /\ memory_status = [s \in Sessions |-> "Not Created"]
    /\ agent = [s \in Sessions |-> None]
    /\ chat_history = [s \in Sessions |-> <<>>]
    /\ last = ScriptEntry("none")
    /\ w = WaitIdle
    /\ script_pc = [x \in Scripts |-> "idle"]
    /\ script_mid = [x \in Scripts |-> None]
    /\ ev = [events |-> <<>>, memoryId |-> None, actorId |-> "user-1",
             sessionId |-> "session-1", call |-> <<>>]
    /\ vs = VerifyIdle

\* --------------------------------------------------- app.py: one run each
\* A run with no widget triggered: the sidebar reloads the configuration.
Rerun(s) ==
    /\ SidebarOnly(s)
    /\ last' = Entry("rerun", s)
    /\ UNCHANGED <<file, memories, next_id, last_created, observed_active,
                   agent, chat_history,
                   w, scriptVars, ev, vs>>

\* render_sidebar, "New Session ID": history and agent are dropped.
NewSessionId(s) ==
    /\ SidebarOnly(s)
    /\ chat_history' = [chat_history EXCEPT ![s] = <<>>]
    /\ agent' = [agent EXCEPT ![s] = None]
    /\ last' = Entry("new_session", s)
    /\ UNCHANGED <<file, memories, next_id, last_created, observed_active,
                   w, scriptVars, ev, vs>>

\* render_memory_setup_tab, "Create Memory Resource" submitted:
\* create_memory_resource, then wait_for_memory_active(memory_id).
CreateMemory(s) ==
    \E ok \in BOOLEAN, r \in DefaultWaitOutcomes :
       LET c == create_memory_resource(ok)
           e == Entry("create", s)
       IN  /\ ok => next_id <= MaxMemories
           /\ ~ok => r = wait_for_memory_active(DefaultMaxWait, 0, "ACTIVE", 0)
           /\ IF c.raised
              THEN /\ SidebarOnly(s)
                   /\ last' = [e EXCEPT !.calls["create_memory"] = c.calls,
                                        !.raised = {"create_memory"},
                                        !.ui = "Error creating memory"]
                   /\ UNCHANGED <<file, memories, next_id, last_created,
                                  observed_active>>
              ELSE /\ file' = c.file
                   /\ memories' = memories \cup {c.memory_id}
                   /\ next_id' = next_id + 1
                   /\ last_created' = c.memory_id
                   /\ memory_id' = [memory_id EXCEPT ![s] = c.memory_id]
                   /\ memory_status' =
                         [memory_status EXCEPT
                             ![s] = IF r.result = "True" THEN "Active"
                                    ELSE SbStatus(s)]
                   /\ observed_active' =
                         IF r.saw_active
                         THEN observed_active \cup {c.memory_id}
                         ELSE observed_active
                   /\ last' = [e EXCEPT
                         !.calls["create_memory"] = c.calls,
                         !.calls["get_memory"] = r.polls,
                         !.raised = IF r.result = "raised"
                                    THEN {"get_memory"} ELSE {},
                         !.ret = r.result,
                         !.ui = CASE r.result = "True" -> "Memory created"
                                  [] r.result = "False" ->
                                        "Memory created but not yet active"
                                  [] OTHER -> "Error creating memory"]
    /\ UNCHANGED <<agent, chat_history,
                   w, scriptVars, ev, vs>>

\* render_memory_setup_tab, "Add Strategies" with a multiselect selection.
AddStrategies(s) ==
    /\ SbId(s) # None
    /\ SbStatus(s) = "Active"
    /\ \E strategies \in SUBSET StrategyOptions, ok \in BOOLEAN :
          LET a == add_longterm_strategies(SbId(s), strategies, ok)
          IN  last' = [Entry("add_strategies", s) EXCEPT
                  !.calls["update_memory"] = IF a.called THEN 1 ELSE 0,
                  !.raised = IF a.raised THEN {"update_memory"} ELSE {},
                  !.update = a.update,
                  !.ui = IF a.raised THEN "Error adding strategies"
                         ELSE "Strategies added successfully"]
    /\ SidebarOnly(s)
    /\ UNCHANGED <<file, memories, next_id, last_created, observed_active,
                   agent, chat_history,
                   w, scriptVars, ev, vs>>

\* render_memory_setup_tab, "Delete Memory Resource".
DeleteMemory(s) ==
    /\ SbId(s) # None
    /\ \E outcome \in DeleteOutcomes(SbId(s)) :
          LET del == delete_memory_resource(SbId(s), outcome)
              e == [Entry("delete", s) EXCEPT
                       !.calls["delete_memory"] = 1,
                       !.raised = IF outcome = "ok" THEN {}
                                  ELSE {"delete_memory"},
                       !.ret = IF del.ret THEN "True" ELSE "False"]
          IN  /\ file' = del.file
              /\ memories' = IF outcome = "ok" THEN memories \ {SbId(s)}
                             ELSE memories
              /\ IF del.ret
                 THEN /\ memory_id' = [memory_id EXCEPT ![s] = None]
                      /\ memory_status' =
                            [memory_status EXCEPT ![s] = "Not Created"]
                      /\ agent' = [agent EXCEPT ![s] = None]
                      /\ last' = [e EXCEPT !.ui = "Memory resource deleted"]
                 ELSE /\ SidebarOnly(s)
                      /\ agent' = agent
                      /\ last' = [e EXCEPT !.ui = "Error deleting memory"]
    /\ UNCHANGED <<next_id, last_created, observed_active, chat_history,
                   w, scriptVars, ev, vs>>

\* render_shortterm_memory_tab, "Add Sample Events".
AddSampleEvents(s) ==
    /\ ~TabReturnsEarly(SbId(s))
    /\ \E actor \in ActorIds, sess \in SessionIds, ok \in BOOLEAN :
          last' = [Entry("add_events", s) EXCEPT
              !.calls["create_event"] =
                  Len(add_events_to_memory(SbId(s), actor, sess,
                                           SampleEvents)),
              !.raised = IF ok THEN {} ELSE {"create_event"},
              !.event = add_events_to_memory(SbId(s), actor, sess,
                                             SampleEvents),
              !.ui = IF ok THEN "Sample conversation added to memory"
                     ELSE "Error adding events"]
    /\ SidebarOnly(s)
    /\ UNCHANGED <<file, memories, next_id, last_created, observed_active,
                   agent, chat_history,
                   w, scriptVars, ev, vs>>

\* render_shortterm_memory_tab, "Retrieve Current Session Events".
RetrieveEvents(s) ==
    /\ ~TabReturnsEarly(SbId(s))
    /\ \E ok \in BOOLEAN, found \in BOOLEAN :
          last' = [Entry("retrieve_events", s) EXCEPT
              !.calls["list_events"] = 1,
              !.raised = IF ok THEN {} ELSE {"list_events"},
              !.ui = IF ~ok THEN "Error retrieving events"
                     ELSE IF found THEN "Found events in current session"
                     ELSE "No events found in current session"]
    /\ SidebarOnly(s)
    /\ UNCHANGED <<file, memories, next_id, last_created, observed_active,
                   agent, chat_history,
                   w, scriptVars, ev, vs>>

\* render_longterm_memory_tab: "Search" with the query typed (the call is
\* made for a non-empty query only), or a preset query (the button stores
\* preset_query and reruns; the rerun makes the call).
QueryLongTerm(s) ==
    /\ ~TabReturnsEarly(SbId(s))
    /\ \E kind \in {"search", "preset"}, query_text \in {"", "q"},
          ok \in BOOLEAN, found \in BOOLEAN :
          LET called == kind = "preset" \/ query_text # ""
          IN  last' = [Entry(kind, s) EXCEPT
                  !.calls["retrieve_memory_records"] =
                      IF called THEN 1 ELSE 0,
                  !.raised = IF called /\ ~ok
                             THEN {"retrieve_memory_records"} ELSE {},
                  !.ui = IF ~called THEN "none"
                         ELSE IF ~ok THEN "Error querying memory"
                         ELSE IF found THEN "Found relevant memories"
                         ELSE "No memories found"]
    /\ SidebarOnly(s)
    /\ UNCHANGED <<file, memories, next_id, last_created, observed_active,
                   agent, chat_history,
                   w, scriptVars, ev, vs>>

\* render_agent_chat_tab, "Clear Chat".
ClearChat(s) ==
    /\ ~TabReturnsEarly(SbId(s))
    /\ SidebarOnly(s)
    /\ chat_history' = [chat_history EXCEPT ![s] = <<>>]
    /\ agent' = [agent EXCEPT ![s] = None]
    /\ last' = Entry("clear_chat", s)
    /\ UNCHANGED <<file, memories, next_id, last_created, observed_active,
                   w, scriptVars, ev, vs>>

\* A wrong chat turn: the except branch shows the error and appends nothing.
chat_turn_drops_error(history, answered) ==
    history \o <<[role |-> "user", content |-> "input"]>>
            \o (IF answered
                THEN <<[role |-> "assistant", content |-> "response"]>>
                ELSE <<>>)

\* What one chat input appends: the user entry first, then the assistant
\* entry of the try body (answered) or of its except branch.
chat_turn(history, answered) ==
    history \o <<[role |-> "user", content |-> "input"],
                 [role |-> "assistant",
                  content |-> IF answered THEN "response" ELSE "Error"]>>

\* render_agent_chat_tab, a message typed into the chat input: the agent is
\* created when the session has none, then invoked once.
Chat(s) ==
    /\ ~TabReturnsEarly(SbId(s))
    /\ Len(chat_history[s]) + 2 <= MaxChat
    /\ \E created \in BOOLEAN, invoked \in BOOLEAN :
          LET need == agent[s] = None
              made == need /\ created
              reached == ~need \/ created
              e == Entry("chat", s)
          IN  /\ agent' = [agent EXCEPT
                              ![s] = IF made THEN SbId(s) ELSE @]
              /\ chat_history' = [chat_history EXCEPT ![s] =
                    chat_turn(@, reached /\ invoked)]
              /\ last' = [e EXCEPT
                    !.calls["create_agent"] = IF need THEN 1 ELSE 0,
                    !.calls["invoke_async"] = IF reached THEN 1 ELSE 0,
                    !.raised = IF ~reached THEN {"create_agent"}
                               ELSE IF ~invoked THEN {"invoke_async"}
                               ELSE {},
                    !.ui = IF reached /\ invoked THEN "response"
                           ELSE "Error"]
    /\ SidebarOnly(s)
    /\ UNCHANGED <<file, memories, next_id, last_created, observed_active,
                   w, scriptVars, ev, vs>>

\* A run in which a widget of tabs 2-4 is triggered (a button, the chat
\* input, a pending preset query) while the session holds no memory id:
\* each tab returns before it reaches the widget's code.
NoMemoryRun(s) ==
    /\ TabReturnsEarly(SbId(s))
    /\ \E trigger \in TabTriggers : last' = Entry(trigger, s)
    /\ SidebarOnly(s)
    /\ UNCHANGED <<file, memories, next_id, last_created, observed_active,
                   agent, chat_history, w, scriptVars, ev, vs>>

\* ------------------------------------------------------ example scripts
\* example_2_create_memory.py, run whole: create_memory, then the id is
\* written to memory_config.json. Nothing catches a raising create_memory.
Example2 ==
    /\ ~Busy
    /\ \E ok \in BOOLEAN :
          /\ ok => next_id <= MaxMemories
          /\ IF ok
             THEN /\ file' = <<[memory_id |-> next_id]>>
                  /\ memories' = memories \cup {next_id}
                  /\ last_created' = next_id
                  /\ next_id' = next_id + 1
                  /\ last' = [ScriptEntry("example_2") EXCEPT
                                 !.calls["create_memory"] = 1,
                                 !.exit = "0",
                                 !.ui = "Memory created successfully"]
             ELSE /\ last' = [ScriptEntry("example_2") EXCEPT
                                 !.calls["create_memory"] = 1,
                                 !.raised = {"create_memory"},
                                 !.exit = "1",
                                 !.uncaught = TRUE]
                  /\ UNCHANGED <<file, memories, next_id, last_created>>
    /\ UNCHANGED <<observed_active, memory_id, memory_status, agent,
                   chat_history, w, scriptVars, ev, vs>>

\* A wrong cleanup: a memory the service no longer holds is an error like
\* any other.
example_9_not_found_is_error(outcome) ==
    IF file = <<>>
    THEN [exit |-> "0", file |-> file, called |-> FALSE]
    ELSE IF outcome = "ok"
    THEN [exit |-> "0", file |-> <<>>, called |-> TRUE]
    ELSE [exit |-> "1", file |-> file, called |-> TRUE]

\* example_9_cleanup_memory.py, run whole: its exit status, the file it
\* leaves, and whether delete_memory was called.
example_9(outcome) ==
    IF file = <<>>
    THEN [exit |-> "0", file |-> file, called |-> FALSE]
    ELSE IF outcome = "ok"
    THEN [exit |-> "0", file |-> <<>>, called |-> TRUE]
    ELSE IF outcome = "ResourceNotFoundException"
    THEN [exit |-> "0", file |-> <<>>, called |-> TRUE]
    ELSE [exit |-> "1", file |-> file, called |-> TRUE]

Example9 ==
    /\ ~Busy
    /\ \E outcome \in (IF file = <<>> THEN {"none"}
                       ELSE DeleteOutcomes(file[1].memory_id)) :
          LET r == example_9(outcome)
          IN  /\ file' = r.file
              /\ memories' = IF outcome = "ok"
                             THEN memories \ {file[1].memory_id}
                             ELSE memories
              /\ last' = [ScriptEntry("example_9") EXCEPT
                    !.calls["delete_memory"] = IF r.called THEN 1 ELSE 0,
                    !.raised = IF outcome \in {"ok", "none"} THEN {}
                               ELSE {"delete_memory"},
                    !.ret = outcome,
                    !.exit = r.exit,
                    !.ui = CASE outcome = "none" -> "Nothing to clean up"
                             [] outcome = "ok" -> "Cleanup complete"
                             [] outcome = "ResourceNotFoundException" ->
                                   "Memory not found"
                             [] OTHER -> "Error during cleanup"]
    /\ UNCHANGED <<next_id, last_created, observed_active, memory_id,
                   memory_status, agent, chat_history, w, scriptVars, ev, vs>>

\* The service loses a memory without this program's doing (deleted from
\* another client): what example_9 expects when it handles
\* ResourceNotFoundException, "may have been already deleted".
ExternalDelete ==
    /\ ~Busy
    /\ \E m \in memories : memories' = memories \ {m}
    /\ UNCHANGED <<file, next_id, last_created, observed_active, memory_id,
                   memory_status, agent, chat_history, last, w, scriptVars,
                   ev, vs>>

\* example_3 / example_6, step by step. The configuration is loaded ...
ScriptStart(x) ==
    /\ ~Busy
    /\ IF file = <<>>
       THEN /\ script_pc' = [script_pc EXCEPT ![x] = "crashed"]
            /\ script_mid' = script_mid
            /\ last' = [ScriptEntry(x) EXCEPT !.uncaught = TRUE,
                                              !.exit = "1"]
       ELSE /\ script_pc' = [script_pc EXCEPT ![x] = "wait"]
            /\ script_mid' = [script_mid EXCEPT ![x] = file[1].memory_id]
            /\ last' = ScriptEntry(x)
    /\ UNCHANGED <<file, memories, next_id, last_created, observed_active,
                   memory_id, memory_status, agent, chat_history, w, ev, vs>>

\* ... `while True:` polls get_memory and leaves the loop on ACTIVE only ...
ScriptPoll(x) ==
    /\ script_pc[x] = "wait"
    /\ \E st \in PollOutcomes(script_mid[x]) :
          /\ script_pc' = [script_pc EXCEPT
                ![x] = CASE st = "RAISE" -> "crashed"
                         [] st = "ACTIVE" -> "events"
                         [] OTHER -> "sleep"]
          /\ observed_active' =
                IF st = "ACTIVE" THEN observed_active \cup {script_mid[x]}
                ELSE observed_active
          /\ last' = [ScriptEntry(x) EXCEPT
                !.calls["get_memory"] = 1,
                !.raised = IF st = "RAISE" THEN {"get_memory"} ELSE {},
                !.uncaught = (st = "RAISE"),
                !.exit = IF st = "RAISE" THEN "1" ELSE "none"]
    /\ UNCHANGED <<file, memories, next_id, last_created, memory_id,
                   memory_status, agent, chat_history, w, script_mid, ev, vs>>

\* ... sleeping between two polls ...
ScriptSleep(x) ==
    /\ script_pc[x] = "sleep"
    /\ script_pc' = [script_pc EXCEPT ![x] = "wait"]
    /\ UNCHANGED <<appVars, w, script_mid, ev, vs>>

\* ... then create_event writes the conversation ...
ScriptEvents(x) ==
    /\ script_pc[x] = "events"
    /\ \E ok \in BOOLEAN :
          /\ script_pc' = [script_pc EXCEPT
                ![x] = IF ok THEN "query" ELSE "crashed"]
          /\ last' = [ScriptEntry(x) EXCEPT
                !.calls["create_event"] = 1,
                !.raised = IF ok THEN {} ELSE {"create_event"},
                !.event = <<[memoryId |-> script_mid[x],
                             actorId |-> "user-1",
                             sessionId |-> IF x = "example_3"
                                           THEN "session-1"
                                           ELSE "session-3",
                             payload |-> <<>>]>>,
                !.uncaught = ~ok,
                !.exit = IF ok THEN "none" ELSE "1"]
    /\ UNCHANGED <<file, memories, next_id, last_created, observed_active,
                   memory_id, memory_status, agent, chat_history, w,
                   script_mid, ev, vs>>

\* ... and list_events (example_3) reads back, or retrieve_memory_records
\* (example_6) is called for one query after the other; the first call that
\* raises, the n-th, ends the script.
ScriptQuery(x) ==
    /\ script_pc[x] = "query"
    /\ \E ok \in BOOLEAN,
          n \in 1..(IF x = "example_3" THEN 1 ELSE ExampleQueries) :
          LET op == IF x = "example_3" THEN "list_events"
                    ELSE "retrieve_memory_records"
          IN  /\ ok => n = (IF x = "example_3" THEN 1 ELSE ExampleQueries)
              /\ script_pc' = [script_pc EXCEPT
                    ![x] = IF ok THEN "done" ELSE "crashed"]
              /\ last' = [ScriptEntry(x) EXCEPT
                    !.calls[op] = n,
                    !.raised = IF ok THEN {} ELSE {op},
                    !.uncaught = ~ok,
                    !.exit = IF ok THEN "0" ELSE "1"]
    /\ UNCHANGED <<file, memories, next_id, last_created, observed_active,
                   memory_id, memory_status, agent, chat_history, w,
                   script_mid, ev, vs>>

\* The process has ended; the script can be run again.
ScriptExit(x) ==
    /\ script_pc[x] \in {"done", "crashed"}
    /\ script_pc' = [script_pc EXCEPT ![x] = "idle"]
    /\ script_mid' = [script_mid EXCEPT ![x] = None]
    /\ UNCHANGED <<appVars, w, ev, vs>>

\* ------------------------------------------- add_events_to_memory alone
EventLists ==
    UNION {[1..n -> [role : Roles, text : Texts]] : n \in 0..MaxEvents}

InitEvents ==
    /\ file = <<>>
    /\ memories = {}
    /\ next_id = 1
    /\ last_created = None
    /\ observed_active = {}
    /\ memory_id = [s \in Sessions |-> None]
    /\ memory_status = [s \in Sessions |-> "Not Created"]
    /\ agent = [s \in Sessions |-> None]
    /\ chat_history = [s \in Sessions |-> <<>>]
    /\ last = ScriptEntry("none")
    /\ w = WaitIdle
    /\ script_pc = [x \in Scripts |-> "idle"]
    /\ script_mid = [x \in Scripts |-> None]
    /\ vs = VerifyIdle
    /\ \E events \in EventLists, mid \in 1..MaxMemories, actor \in ActorIds,
          sess \in SessionIds :
          ev = [events |-> events, memoryId |-> mid, actorId |-> actor,
                sessionId |-> sess, call |-> <<>>]

AddEvents ==
    /\ ev.call = <<>>
    /\ ev' = [ev EXCEPT !.call =
                 add_events_to_memory(ev.memoryId, ev.actorId,
                                      ev.sessionId, ev.events)]
    /\ UNCHANGED <<appVars, w, scriptVars, vs>>

\* -------------------------------------------------------- specifications
User == "s1"

AppNext ==
    \/ Rerun(User)
    \/ NewSessionId(User)
    \/ CreateMemory(User)
    \/ AddStrategies(User)
    \/ DeleteMemory(User)
    \/ AddSampleEvents(User)
    \/ RetrieveEvents(User)
    \/ QueryLongTerm(User)
    \/ ClearChat(User)
    \/ Chat(User)
    \/ NoMemoryRun(User)

Next ==
    \/ AppNext
    \/ Example2
    \/ Example9
    \/ ExternalDelete

\* The application used from one browser session, with the create and
\* cleanup scripts run beside it.
Spec == Init /\ [][Next]_vars

\* wait_for_memory_active called alone, for every max_wait.
SpecWait == Init /\ [][WaitNext]_vars

ScriptStep(x) ==
    \/ ScriptStart(x)
    \/ ScriptPoll(x)
    \/ ScriptSleep(x)
    \/ ScriptEvents(x)
    \/ ScriptQuery(x)
    \/ ScriptExit(x)

ScriptNext ==
    \/ \E x \in Scripts : ScriptStep(x)
    \/ Example2
    \/ Example9
    \/ ExternalDelete
    \/ WaitNext

\* The scripts run from the command line, and a call of
\* wait_for_memory_active: a process that can take a step does take it.
FairSpec ==
    /\ Init
    /\ [][ScriptNext]_vars
    /\ \A x \in Scripts : WF_vars(ScriptPoll(x)) /\ WF_vars(ScriptSleep(x))
                          /\ WF_vars(ScriptEvents(x))
                          /\ WF_vars(ScriptQuery(x))
    /\ WF_vars(WaitLoop)

\* add_events_to_memory called alone, for every list of events.
SpecEvents == InitEvents /\ [][AddEvents]_vars

\* The application open in every browser session at once, each run atomic,
\* with the cleanup script run beside them; all share memory_config.json.
MultiNext ==
    \/ \E s \in Sessions : Rerun(s)
    \/ \E s \in Sessions : CreateMemory(s)
    \/ \E s \in Sessions : DeleteMemory(s)
    \/ \E s \in Sessions : AddSampleEvents(s)
    \/ Example9

MultiSpec == Init /\ [][MultiNext]_vars

\* verify_setup.py run in every environment.
SpecVerify == Init /\ [][VerifyNext]_vars

\* ------------------------------------------------------------------ claims
InLoop(x) == script_pc[x] \in {"wait", "sleep"}

\* C1: every activation polling loop times out: a wait for activation that
\* has begun polling (wait_for_memory_active, the loop of example_3, the
\* loop of example_6) eventually stops polling, whatever get_memory answers.
C1_PollingLoopsTimeOut ==
    /\ \A x \in Scripts : InLoop(x) ~> ~InLoop(x)
    /\ (w.pc = "loop") ~> (w.pc = "done")

\* C2: no exception raised by an SDK call leaves an app handler or an
\* example script uncaught.
C2_NoUncaughtSdkException ==
    ~(last.uncaught /\ last.raised # {})

\* C3: memory_config.json, when present, holds the single field memory_id
\* with the id of the latest successful create_memory; a successful creation
\* (app or example_2) leaves the file so, a raising one leaves it as it was.
C3_ConfigHoldsLatestId ==
    /\ file # <<>> =>
          /\ Len(file) = 1
          /\ DOMAIN file[1] = {"memory_id"}
          /\ file[1].memory_id = last_created
    /\ last.handler \in {"create", "example_2"} =>
          IF "create_memory" \in last.raised
          THEN file = last.before.file
          ELSE file # <<>> /\ last_created # None

C3_Witness ==
    /\ last.handler = "create"
    /\ "create_memory" \notin last.raised
    /\ last.before.file # <<>>
    /\ file # last.before.file

\* C4: create_event is called for a memory only after some get_memory
\* response has reported that memory ACTIVE.
C4_EventsOnlyAfterActive ==
    last.event # <<>> => last.event[1].memoryId \in observed_active

\* C5: wait_for_memory_active returns True exactly when a poll reported
\* ACTIVE, and that poll is its last; every poll is made while elapsed time
\* is below max_wait (so none when max_wait is 0); it returns False only
\* with max_wait reached and no ACTIVE seen; after any other status it
\* sleeps 2 seconds and goes on.
C5_WaitResult ==
    /\ (w.result = "True") <=> w.saw_active
    /\ w.saw_active => w.last_status = "ACTIVE" /\ w.pc = "done"
    /\ w.polls > 0 => w.last_poll_at < w.max_wait
    /\ w.max_wait = 0 => w.polls = 0
    /\ w.result = "False" => w.elapsed >= w.max_wait /\ ~w.saw_active
    /\ w.result = "raised" => w.last_status = "RAISE"
    /\ (w.pc = "loop" /\ w.polls > 0) =>
          /\ w.last_status \in Statuses \ {"ACTIVE"}
          /\ w.elapsed >= w.last_poll_at + SleepSeconds

C5_Witness ==
    /\ w.pc = "done"
    /\ w.result = "True"
    /\ w.polls >= 2
    /\ w.elapsed < w.max_wait

\* C6: delete_memory_resource returns True exactly when delete_memory
\* returned and the file is then absent; when delete_memory raises it
\* returns False, the file is as before, and the session's memory_id,
\* memory_status and agent are as before; on True they are reset.
C6_DeleteResult ==
    last.handler = "delete" =>
       LET s == last.session
       IN  /\ (last.ret = "True") <=>
                 ("delete_memory" \notin last.raised /\ file = <<>>)
           /\ "delete_memory" \in last.raised =>
                 /\ last.ret = "False"
                 /\ file = last.before.file
           /\ last.ret = "False" =>
                 /\ memory_id[s] = last.before.memory_id
                 /\ memory_status[s] = last.before.memory_status
                 /\ agent[s] = last.before.agent
           /\ last.ret = "True" =>
                 /\ memory_id[s] = None
                 /\ memory_status[s] = "Not Created"
                 /\ agent[s] = None

C6_Witness ==
    /\ last.handler = "delete"
    /\ last.ret = "False"
    /\ file # <<>>
    /\ agent[last.session] # None

\* C7: example_9 ends with status 0 and no configuration file (the file was
\* missing and delete_memory was not called, or delete_memory returned, or
\* it raised ResourceNotFoundException), or with status 1 and the file as
\* it was (delete_memory raised something else).
C7_CleanupEndings ==
    last.handler = "example_9" =>
       /\ \/ last.exit = "0" /\ file = <<>>
          \/ last.exit = "1" /\ file # <<>> /\ file = last.before.file
       /\ (last.exit = "0") <=>
             last.ret \in {"none", "ok", "ResourceNotFoundException"}
       /\ (last.ret = "none") <=> (last.before.file = <<>>)
       /\ last.ret = "none" => last.calls["delete_memory"] = 0
       /\ last.ret # "none" => last.calls["delete_memory"] = 1

C7_Witness ==
    /\ last.handler = "example_9"
    /\ last.ret = "ResourceNotFoundException"
    /\ last.before.file # <<>>

\* C8: a handler issues each mutating or agent call at most once, also when
\* the call raises: one create_memory per submit, one create_event per click
\* (the button's code is reached only in a tab that has a memory id),
\* one delete_memory per click; only get_memory is repeated, and only by the
\* create handler's wait.
C8_NoRetry ==
    /\ \A o \in Ops \ {"get_memory"} : last.calls[o] <= 1
    /\ last.handler = "create" => last.calls["create_memory"] = 1
    /\ (last.handler = "add_events" /\ ~TabReturnsEarly(last.before.memory_id))
          => last.calls["create_event"] = 1
    /\ last.handler = "delete" => last.calls["delete_memory"] = 1
    /\ last.calls["get_memory"] > 1 => last.handler = "create"

C8_Witness ==
    /\ last.handler = "create"
    /\ last.calls["create_memory"] = 1
    /\ last.calls["get_memory"] >= 2

\* C9: add_events_to_memory makes exactly one create_event call; its payload
\* has the input's length and order, entry i with the role and text of
\* event i, and memoryId, actorId and sessionId are the arguments.
C9_EventsVerbatim ==
    ev.call # <<>> =>
       /\ Len(ev.call) = 1
       /\ ev.call[1].memoryId = ev.memoryId
       /\ ev.call[1].actorId = ev.actorId
       /\ ev.call[1].sessionId = ev.sessionId
       /\ Len(ev.call[1].payload) = Len(ev.events)
       /\ \A i \in 1..Len(ev.events) :
             /\ ev.call[1].payload[i].conversational.role = ev.events[i].role
             /\ ev.call[1].payload[i].conversational.content.text =
                   ev.events[i].text

C9_Witness ==
    /\ ev.call # <<>>
    /\ Len(ev.events) >= 2
    /\ ev.events[1] # ev.events[2]

\* C10: when the Setup tab reports "Strategies added successfully", an
\* update_memory call adding the selected strategies has returned.
C10_SuccessMeansUpdated ==
    last.ui = "Strategies added successfully" =>
       /\ last.calls["update_memory"] = 1
       /\ "update_memory" \notin last.raised
       /\ last.update # <<>>

\* C11: while the session's memory_id is None, a run of the Short-Term,
\* Long-Term or Agent Chat tab makes no SDK or agent call, whatever widget
\* is triggered, and leaves chat_history and the agent as they were.
C11_NoCallsWithoutMemory ==
    (last.handler \in TabTriggers /\ last.before.memory_id = None) =>
       /\ last.calls = NoCalls
       /\ last.event = <<>>
       /\ last.raised = {}
       /\ chat_history[last.session] = last.before.chat_history
       /\ agent[last.session] = last.before.agent

C11_Witness ==
    /\ last.handler = "chat"
    /\ last.before.memory_id = None
    /\ chat_history[last.session] # <<>>

\* C12: check_python_version returns True exactly when the interpreter is
\* 3.10 or higher, (major, minor) >= (3, 10) in lexicographic order.
C12_VersionAtLeast310 ==
    Len(vs.results) >= 1 =>
       (vs.results[1] <=>
           (vs.env.major > 3 \/ (vs.env.major = 3 /\ vs.env.minor >= 10)))

C14_ChatAlternates ==
    /\ \A s \in Sessions :
          /\ Len(chat_history[s]) % 2 = 0
          /\ \A i \in 1..Len(chat_history[s]) :
                chat_history[s][i].role =
                   IF i % 2 = 1 THEN "user" ELSE "assistant"
    /\ (last.handler = "chat" /\ last.before.memory_id # None) =>
          LET now == chat_history[last.session]
              n == Len(last.before.chat_history)
          IN  /\ Len(now) = n + 2
              /\ SubSeq(now, 1, n) = last.before.chat_history
              /\ now[n + 1].role = "user"
              /\ now[n + 2].role = "assistant"
              /\ now[n + 2].content =
                    IF last.raised = {} THEN "response" ELSE "Error"

C14_Witness ==
    /\ last.handler = "chat"
    /\ last.raised = {"invoke_async"}
    /\ Len(chat_history[last.session]) = 4
    /\ chat_history[last.session][2].content = "Error"

\* C15: with several sessions and example_9 sharing memory_config.json, at
\* the end of an app run the session's memory_id is None or the id stored
\* in the file, and the run has sent no create_event for a memory that has
\* been deleted.
C15_SessionsFollowFile ==
    last.session \in Sessions =>
       /\ \/ memory_id[last.session] = None
          \/ /\ file # <<>>
             /\ memory_id[last.session] = file[1].memory_id
       /\ last.event # <<>> => last.event[1].memoryId \in memories
====
